---------------------------- MODULE Spec2Model ----------------------------
(***************************************************************************)
(* Model of the Thirukural wallpaper generator (src/utils.py, src/main.py).*)
(*                                                                         *)
(* Text is a sequence of characters.  Lengths along the vertical axis are  *)
(* kept in twentieths of a pixel, so that font.size * 1.3 and the halving  *)
(* total_height / 2 stay exact integers.                                   *)
(***************************************************************************)
EXTENDS Integers, Sequences, FiniteSets, TLC

VARIABLES
    pc,            \* position of the run / of the operation under study
    steps,         \* the steps the run has performed, in order
    err,           \* the exception that ended the run, or NoError
    dataFile,      \* thirukural.json as found on disk
    kurals,        \* result of load_thirukural_data
    kural_data,    \* result of get_random_kural (the 'properties' dict)
    fontFiles,     \* per candidate font: which truetype() call raises (0: none)
    width, height, \* canvas size given to create_wallpaper_image
    gradient,      \* colour of every scanline after the gradient loop
    kural_line1, kural_line2,   \* extracted script lines
    fonts,         \* font_title, font_subtitle, font_label, font_tiny
    blocks,        \* what draw_wrapped_centered_text drew, per text block
    outFile,       \* the output PNG on disk
    wallpaper,     \* the desktop background as set through the OS
    text, font, max_width,      \* arguments of draw_wrapped_centered_text
    drawn          \* its result: lines, total_height, start_y

vars == <<pc, steps, err, dataFile, kurals, kural_data, fontFiles, width, height,
          gradient, kural_line1, kural_line2, fonts, blocks, outFile, wallpaper,
          text, font, max_width, drawn>>

-----------------------------------------------------------------------------
(* Bounds of the model *)

MaxLen == 6          \* longest text given to draw_wrapped_centered_text
MaxWidthUnits == 4   \* largest max_width, in multiples of the font size
MaxWords == 3        \* most words in one field of a record given to the composer
MaxKurals == 2       \* most features in thirukural.json
MaxField == 3        \* longest script field of the extraction study
MaxHeight == 60      \* tallest canvas of the gradient study (besides the default)

-----------------------------------------------------------------------------
(* Strings *)

SP == " "
NL == "\n"
Whitespace == {SP, NL}

\* All sequences over S of length at most n
RECURSIVE StringsUpTo(_, _)
StringsUpTo(S, n) ==
    IF n = 0 THEN {<<>>}
    ELSE LET shorter == StringsUpTo(S, n - 1)
         IN  shorter \cup {Append(s, c) : s \in {t \in shorter : Len(t) = n - 1}, c \in S}

\* str.split(): cut at runs of whitespace, no empty words
RECURSIVE SplitFrom(_, _, _, _)
SplitFrom(s, i, cur, acc) ==
    IF i > Len(s) THEN (IF cur = <<>> THEN acc ELSE Append(acc, cur))
    ELSE IF s[i] \in Whitespace
         THEN SplitFrom(s, i + 1, <<>>, IF cur = <<>> THEN acc ELSE Append(acc, cur))
         ELSE SplitFrom(s, i + 1, Append(cur, s[i]), acc)

Split(s) == SplitFrom(s, 1, <<>>, <<>>)

\* sep.join(ws)
RECURSIVE Join(_, _)
Join(ws, sep) ==
    IF ws = <<>> THEN <<>>
    ELSE IF Len(ws) = 1 THEN ws[1]
    ELSE ws[1] \o sep \o Join(Tail(ws), sep)

\* str.split('\n'): cut at every newline, empty pieces kept
RECURSIVE SplitOnFrom(_, _, _, _, _)
SplitOnFrom(s, c, i, cur, acc) ==
    IF i > Len(s) THEN Append(acc, cur)
    ELSE IF s[i] = c
         THEN SplitOnFrom(s, c, i + 1, <<>>, Append(acc, cur))
         ELSE SplitOnFrom(s, c, i + 1, Append(cur, s[i]), acc)

SplitOn(s, c) == SplitOnFrom(s, c, 1, <<>>, <<>>)

Contains(s, c) == \E i \in 1..Len(s) : s[i] = c

-----------------------------------------------------------------------------
(* Fonts and text measurement *)

\* Vertical unit: 1 pixel = Sub units (font.size * 1.3 and / 2 are exact)
Sub == 20

TitleSize == 42
SubtitleSize == 28
LabelSize == 24
TinySize == 18
DefaultSize == 10

NumCandidates == 4
DefaultFont == 0     \* source id of ImageFont.load_default()

Font(src, size) == [source |-> src, size |-> size]

\* Horizontal advance of a glyph in multiples of the font size.  The metrics
\* are the font file's; here a text measures the sum of its glyphs, "b" and "B"
\* are wide glyphs, and the built-in font has the size 10 of load_default().
GlyphUnits(c) == IF c \in {"b", "B"} THEN 2 ELSE 1

RECURSIVE TextWidthFrom(_, _, _)
TextWidthFrom(s, i, f) ==
    IF i > Len(s) THEN 0
    ELSE GlyphUnits(s[i]) * f.size + TextWidthFrom(s, i + 1, f)

\* bbox = draw.textbbox((0, 0), s, font=f); bbox[2] - bbox[0]
TextWidth(s, f) == TextWidthFrom(s, 1, f)

-----------------------------------------------------------------------------
(* draw_wrapped_centered_text *)

\* A loop that closes the line and forgets the word that did not fit
RECURSIVE WrapLoopDropsWord(_, _, _, _, _, _)
WrapLoopDropsWord(words, i, lines, current_line, f, maxw) ==
    IF i > Len(words) THEN <<lines, current_line>>
    ELSE LET word == words[i]
             test_line == Join(Append(current_line, word), <<SP>>)
         IN  IF TextWidth(test_line, f) <= maxw
             THEN WrapLoopDropsWord(words, i + 1, lines, Append(current_line, word), f, maxw)
             ELSE WrapLoopDropsWord(words, i + 1, Append(lines, Join(current_line, <<SP>>)),
                                    <<>>, f, maxw)

\* The greedy loop over words; returns <<lines, current_line>>
RECURSIVE WrapLoop(_, _, _, _, _, _)
WrapLoop(words, i, lines, current_line, f, maxw) ==
    IF i > Len(words) THEN <<lines, current_line>>
    ELSE LET word == words[i]
             test_line == Join(Append(current_line, word), <<SP>>)
         IN  IF TextWidth(test_line, f) <= maxw
             THEN WrapLoop(words, i + 1, lines, Append(current_line, word), f, maxw)
             ELSE WrapLoop(words, i + 1, Append(lines, Join(current_line, <<SP>>)),
                           <<word>>, f, maxw)

WrapLines(t, f, maxw) ==
    LET r == WrapLoop(Split(t), 1, <<>>, <<>>, f, maxw)
    IN  IF r[2] # <<>> THEN Append(r[1], Join(r[2], <<SP>>)) ELSE r[1]

\* line_height = font.size * 1.3, in Sub units
LineHeight(f) == f.size * 26

\* The whole helper: the lines, the returned total_height, where each line is drawn
\* (y_center, total_height, start_y and at[i].y in Sub units; x and w in pixels)
DrawWrappedCenteredText(t, y_center, f, maxw, w) ==
    LET ls == WrapLines(t, f, maxw)
        total_height == Len(ls) * LineHeight(f)
        start_y == y_center - total_height \div 2
    IN  [lines |-> ls,
         total_height |-> total_height,
         y_center |-> y_center,
         start_y |-> start_y,
         at |-> [i \in 1..Len(ls) |->
                   [x |-> (w - TextWidth(ls[i], f)) \div 2,
                    y |-> start_y + (i - 1) * LineHeight(f)]]]

-----------------------------------------------------------------------------
(* create_wallpaper_image: background gradient *)

TopColor == <<26, 26, 46>>
BottomColor == <<15, 33, 62>>

\* An interpolation that takes the row below: ratio = (y + 1) / h
LerpNextRow(top, bottom, y, h) == (top * h + (bottom - top) * (y + 1)) \div h

\* int(top + (bottom - top) * (y / h)); the value is never negative
Lerp(top, bottom, y, h) == (top * h + (bottom - top) * y) \div h

GradientRow(y, h) == [ch \in 1..3 |-> Lerp(TopColor[ch], BottomColor[ch], y, h)]

\* for y in range(height): scanline y (0-based) is element y + 1
Gradient(h) == [i \in 1..h |-> GradientRow(i - 1, h)]

-----------------------------------------------------------------------------
(* create_wallpaper_image: text extraction *)

\* dict.get(key, '')
Get(d, key) == IF key \in DOMAIN d THEN d[key] ELSE <<>>

\* An extraction without the 'if not kural_line1' block
ExtractLinesNoOverride(d) ==
    LET tamil == Get(d, "kural_tamil1")
        parts == SplitOn(tamil, NL)
        line1 == IF Contains(tamil, NL) THEN parts[1] ELSE Get(d, "kural_bamini1")
        line2 == IF Contains(tamil, NL) /\ Len(parts) > 1
                 THEN parts[2] ELSE Get(d, "kural_bamini2")
    IN  <<line1, line2>>

ExtractLines(d) ==
    LET tamil == Get(d, "kural_tamil1")
        parts == SplitOn(tamil, NL)
        line1 == IF Contains(tamil, NL) THEN parts[1] ELSE Get(d, "kural_bamini1")
        line2 == IF Contains(tamil, NL) /\ Len(parts) > 1
                 THEN parts[2] ELSE Get(d, "kural_bamini2")
    IN  IF line1 = <<>>
        THEN <<Get(d, "kural_bamini1"), Get(d, "kural_bamini2")>>
        ELSE <<line1, line2>>

-----------------------------------------------------------------------------
(* create_wallpaper_image: font resolution *)

\* The sizes of font_title, font_subtitle, font_label, font_tiny, in that order
Sizes == <<TitleSize, SubtitleSize, LabelSize, TinySize>>

NoFont == Font(-1, 0)      \* a name not bound yet

\* One pass of the try block for candidate c: the calls before the one that
\* raises have assigned their names; k = 0 means no call raises.
TryCandidate(c, k, fs) ==
    [r \in 1..4 |-> IF k = 0 \/ r < k THEN Font(c, Sizes[r]) ELSE fs[r]]

RECURSIVE FontLoop(_, _, _)
FontLoop(files, c, fs) ==
    IF c > NumCandidates THEN [fonts |-> fs, tamil_font_loaded |-> FALSE]
    ELSE LET fs2 == TryCandidate(c, files[c], fs)
         IN  IF files[c] = 0
             THEN [fonts |-> fs2, tamil_font_loaded |-> TRUE]
             ELSE FontLoop(files, c + 1, fs2)

\* A fallback that only binds the names no candidate has bound
ResolveFontsKeepsBound(files) ==
    LET r == FontLoop(files, 1, [i \in 1..4 |-> NoFont])
    IN  IF r.tamil_font_loaded THEN r.fonts
        ELSE [i \in 1..4 |-> IF r.fonts[i] = NoFont
                              THEN Font(DefaultFont, DefaultSize) ELSE r.fonts[i]]

ResolveFonts(files) ==
    LET r == FontLoop(files, 1, [i \in 1..4 |-> NoFont])
    IN  IF r.tamil_font_loaded THEN r.fonts
        ELSE [i \in 1..4 |-> Font(DefaultFont, DefaultSize)]

-----------------------------------------------------------------------------
(* create_wallpaper_image: layout of the four text blocks *)

DefaultWidth == 1920
DefaultHeight == 1080
CardMargin == 150

JsonNull == <<"null">>     \* a JSON null where a string is expected

Upper(s) == [i \in 1..Len(s) |->
               IF s[i] = "a" THEN "A" ELSE IF s[i] = "b" THEN "B" ELSE s[i]]

\* f"THIRUKKURAL {kural_number} ... {adhikaram.upper()}" (the separator of the
\* source is three non-ASCII characters, written here as three dots)
HeaderText(d) ==
    <<"T","H","I","R","U","K","K","U","R","A","L",SP>> \o Get(d, "kural_no")
        \o <<SP, ".", ".", ".", SP>> \o Upper(Get(d, "adhikarm_english"))

FooterText == <<"~",SP,"T","H","I","R","U","V","A","L","L","U","V","A","R",SP,"~">>

\* tamil_y = height // 2 + (title_height / 2) + 50, in Sub units
TamilY(h, title_height) == (h \div 2) * Sub + title_height \div 2 + 50 * Sub

LayOut(d, l1, l2, fs, w, h) ==
    LET title == DrawWrappedCenteredText(Get(d, "kuralvilakam_english"),
                     (h \div 2 - 40) * Sub, fs[1], w - (CardMargin * 2 + 150), w)
    IN  [header |-> DrawWrappedCenteredText(HeaderText(d),
                     (CardMargin + 60) * Sub, fs[3], w - (CardMargin * 2 + 100), w),
         title |-> title,
         subtitle |-> DrawWrappedCenteredText(l1 \o <<NL>> \o l2,
                     TamilY(h, title.total_height), fs[2],
                     w - (CardMargin * 2 + 200), w),
         footer |-> DrawWrappedCenteredText(FooterText,
                     (h - CardMargin - 80) * Sub, fs[4], w - (CardMargin * 2), w)]

-----------------------------------------------------------------------------
(* State *)

NoError == [type |-> "none", at |-> "none"]
Error(type, at) == [type |-> type, at |-> at]
NoRecord == [unset |-> TRUE]
NoFonts == [i \in 1..4 |-> NoFont]
NoBlock == [lines |-> <<>>, total_height |-> 0, y_center |-> 0, start_y |-> 0,
            at |-> <<>>]
NoBlocks == [header |-> NoBlock, title |-> NoBlock, subtitle |-> NoBlock,
             footer |-> NoBlock]

\* The state before anything has run
RunBlank ==
    /\ steps = <<>>
    /\ err = NoError
    /\ kurals = <<>>
    /\ outFile = "absent"
    /\ wallpaper = "unset"

ComposeBlank ==
    /\ gradient = <<>>
    /\ kural_line1 = <<>>
    /\ kural_line2 = <<>>
    /\ fonts = NoFonts
    /\ blocks = NoBlocks

WrapBlank ==
    /\ text = <<>>
    /\ font = NoFont
    /\ max_width = 0
    /\ drawn = NoBlock

-----------------------------------------------------------------------------
(* The run: main.py __main__ -> generate_wallpaper -> set_wallpaper *)

\* n words w joined by single spaces
RECURSIVE Phrase(_, _)
Phrase(w, n) == IF n = 0 THEN <<>> ELSE IF n = 1 THEN w ELSE w \o <<SP>> \o Phrase(w, n - 1)

Record(tamil, b1, b2, expl, adhikaram) ==
    [kural_tamil1 |-> tamil, kural_bamini1 |-> b1, kural_bamini2 |-> b2,
     kuralvilakam_english |-> expl, kural_no |-> <<"1">>,
     adhikarm_english |-> adhikaram]

\* The records of the data files of the run
RunRecords ==
    { Record(<<"b", NL, "b">>, <<"a">>, <<"a">>, <<"a", SP, "b">>, <<"a">>),
      Record(<<>>, <<"a">>, <<"a", SP, "a">>, <<"a">>, <<"b">>),
      Record(<<"b">>, <<>>, <<>>, <<>>, JsonNull) }

Features == {[properties |-> r] : r \in RunRecords} \cup {[geometry |-> <<>>]}

\* What open() and json.load() find: no file, no JSON, or a JSON object
DataFiles ==
    {[state |-> "missing"], [state |-> "invalid"],
     [state |-> "json", data |-> [type |-> "FeatureCollection"]]}
        \cup {[state |-> "json", data |-> [features |-> fs]] :
                 fs \in StringsUpTo(Features, MaxKurals)}

AllLoad == [c \in 1..NumCandidates |-> 0]
NoneLoad == [c \in 1..NumCandidates |-> 1]

Init ==
    /\ pc = "start"
    /\ dataFile \in DataFiles
    /\ kural_data = NoRecord
    /\ fontFiles \in {AllLoad, NoneLoad}
    /\ width = DefaultWidth
    /\ height = DefaultHeight
    /\ RunBlank /\ ComposeBlank /\ WrapBlank

composeVars == <<gradient, kural_line1, kural_line2, fonts, blocks>>
wrapVars == <<text, font, max_width, drawn>>
envVars == <<dataFile, fontFiles, width, height>>

Fail(type, at) ==
    /\ pc' = "failed"
    /\ err' = Error(type, at)

\* load_thirukural_data: open, json.load, data['features']
LoadThirukuralData ==
    /\ pc = "start"
    /\ steps' = Append(steps, "read")
    /\ IF dataFile.state = "missing"
       THEN Fail("FileNotFoundError", "read") /\ UNCHANGED kurals
       ELSE IF dataFile.state = "invalid"
       THEN Fail("JSONDecodeError", "read") /\ UNCHANGED kurals
       ELSE IF "features" \notin DOMAIN dataFile.data
       THEN Fail("KeyError", "read") /\ UNCHANGED kurals
       ELSE /\ pc' = "loaded"
            /\ kurals' = dataFile.data.features
            /\ UNCHANGED err
    /\ UNCHANGED <<kural_data, outFile, wallpaper, envVars, composeVars, wrapVars>>

\* A get_random_kural that answers an empty dict for an empty list
GetRandomKuralNoRaise ==
    /\ pc = "loaded"
    /\ steps' = Append(steps, "select")
    /\ IF kurals = <<>>
       THEN pc' = "picked" /\ kural_data' = [k \in {"kural_no"} |-> <<>>] /\ UNCHANGED err
       ELSE \E i \in 1..Len(kurals) :
              IF "properties" \in DOMAIN kurals[i]
              THEN /\ pc' = "picked"
                   /\ kural_data' = kurals[i].properties
                   /\ UNCHANGED err
              ELSE Fail("KeyError", "select") /\ UNCHANGED kural_data
    /\ UNCHANGED <<kurals, outFile, wallpaper, envVars, composeVars, wrapVars>>

\* get_random_kural: random.choice(kurals)['properties']
GetRandomKural ==
    /\ pc = "loaded"
    /\ steps' = Append(steps, "select")
    /\ IF kurals = <<>>
       THEN Fail("IndexError", "select") /\ UNCHANGED kural_data
       ELSE \E i \in 1..Len(kurals) :
              IF "properties" \in DOMAIN kurals[i]
              THEN /\ pc' = "picked"
                   /\ kural_data' = kurals[i].properties
                   /\ UNCHANGED err
              ELSE Fail("KeyError", "select") /\ UNCHANGED kural_data
    /\ UNCHANGED <<kurals, outFile, wallpaper, envVars, composeVars, wrapVars>>

\* create_wallpaper_image: build the canvas, then img.save(output_path, 'PNG')
CreateWallpaperImage ==
    /\ pc = "picked"
    /\ IF Get(kural_data, "adhikarm_english") = JsonNull
       THEN /\ steps' = Append(steps, "construct")
            /\ Fail("AttributeError", "construct")
            /\ UNCHANGED <<outFile, composeVars>>
       ELSE LET ls == ExtractLines(kural_data)
                fs == ResolveFonts(fontFiles)
            IN  /\ steps' = steps \o <<"construct", "write">>
                /\ gradient' = Gradient(height)
                /\ kural_line1' = ls[1]
                /\ kural_line2' = ls[2]
                /\ fonts' = fs
                /\ blocks' = LayOut(kural_data, ls[1], ls[2], fs, width, height)
                /\ \E saved \in BOOLEAN :
                      IF saved
                      THEN pc' = "composed" /\ outFile' = "written" /\ UNCHANGED err
                      ELSE Fail("OSError", "write") /\ UNCHANGED outFile
    /\ UNCHANGED <<kurals, kural_data, wallpaper, envVars, wrapVars>>

\* A main that calls set_wallpaper also when create_wallpaper_image has raised
SetWallpaperAfterFailure ==
    /\ pc = "composed" \/ (pc = "failed" /\ err.at \in {"construct", "write"})
    /\ steps' = Append(steps, "os_call")
    /\ pc' = "done"
    /\ wallpaper' \in {wallpaper, "image"}
    /\ UNCHANGED <<err, kurals, kural_data, outFile, envVars, composeVars, wrapVars>>

\* set_wallpaper: SystemParametersInfoW(SPI_SETDESKWALLPAPER, 0, abs_path, 3);
\* its result is not looked at
SetWallpaper ==
    /\ pc = "composed"
    /\ steps' = Append(steps, "os_call")
    /\ pc' = "done"
    /\ wallpaper' \in {wallpaper, "image"}
    /\ UNCHANGED <<err, kurals, kural_data, outFile, envVars, composeVars, wrapVars>>

Next == LoadThirukuralData \/ GetRandomKural \/ CreateWallpaperImage \/ SetWallpaper

Spec == Init /\ [][Next]_vars

-----------------------------------------------------------------------------
(* draw_wrapped_centered_text on its own: every text, two fonts, every width *)

Chars == {"a", "b", SP, NL}

WrapFonts == {Font(1, SubtitleSize), Font(DefaultFont, DefaultSize)}

InitWrap ==
    /\ pc = "call"
    /\ text \in StringsUpTo(Chars, MaxLen)
    /\ font \in WrapFonts
    /\ max_width \in {k * font.size : k \in -1..MaxWidthUnits}
    /\ drawn = NoBlock
    /\ dataFile = [state |-> "missing"]
    /\ kural_data = NoRecord
    /\ fontFiles = AllLoad
    /\ width = DefaultWidth
    /\ height = DefaultHeight
    /\ RunBlank /\ ComposeBlank

runVars == <<steps, err, kurals, kural_data, outFile, wallpaper>>

DrawText ==
    /\ pc = "call"
    /\ pc' = "returned"
    /\ drawn' = DrawWrappedCenteredText(text, (height \div 2) * Sub, font, max_width, width)
    /\ UNCHANGED <<text, font, max_width, runVars, envVars, composeVars>>

NextWrap == DrawText

SpecWrap == InitWrap /\ [][NextWrap]_vars

-----------------------------------------------------------------------------
(* The text extraction of create_wallpaper_image on its own *)

ScriptKeys == {"kural_tamil1", "kural_bamini1", "kural_bamini2"}

\* Every record over the three script fields, each field present or absent
ExtractRecords ==
    UNION { { [k \in K |-> IF k = "kural_tamil1" THEN t
                           ELSE IF k = "kural_bamini1" THEN b1 ELSE b2] :
                t \in StringsUpTo({"b", NL}, MaxField),
                b1 \in StringsUpTo({"a"}, MaxField),
                b2 \in StringsUpTo({"a"}, MaxField) } : K \in SUBSET ScriptKeys }

InitExtract ==
    /\ pc = "call"
    /\ kural_data \in ExtractRecords
    /\ dataFile = [state |-> "missing"]
    /\ fontFiles = AllLoad
    /\ width = DefaultWidth
    /\ height = DefaultHeight
    /\ RunBlank /\ ComposeBlank /\ WrapBlank

ExtractText ==
    /\ pc = "call"
    /\ pc' = "returned"
    /\ kural_line1' = ExtractLines(kural_data)[1]
    /\ kural_line2' = ExtractLines(kural_data)[2]
    /\ UNCHANGED <<gradient, fonts, blocks, runVars, envVars, wrapVars>>

NextExtract == ExtractText

SpecExtract == InitExtract /\ [][NextExtract]_vars

-----------------------------------------------------------------------------
(* The font resolution of create_wallpaper_image on its own *)

InitFonts ==
    /\ pc = "call"
    /\ fontFiles \in [1..NumCandidates -> 0..4]
    /\ dataFile = [state |-> "missing"]
    /\ kural_data = NoRecord
    /\ width = DefaultWidth
    /\ height = DefaultHeight
    /\ RunBlank /\ ComposeBlank /\ WrapBlank

LoadFonts ==
    /\ pc = "call"
    /\ pc' = "returned"
    /\ fonts' = ResolveFonts(fontFiles)
    /\ UNCHANGED <<gradient, kural_line1, kural_line2, blocks, runVars, envVars, wrapVars>>

NextFonts == LoadFonts

SpecFonts == InitFonts /\ [][NextFonts]_vars

-----------------------------------------------------------------------------
(* The gradient loop of create_wallpaper_image on its own *)

InitGradient ==
    /\ pc = "call"
    /\ height \in (1..MaxHeight) \cup {DefaultHeight}
    /\ width = DefaultWidth
    /\ dataFile = [state |-> "missing"]
    /\ kural_data = NoRecord
    /\ fontFiles = AllLoad
    /\ RunBlank /\ ComposeBlank /\ WrapBlank

PaintGradient ==
    /\ pc = "call"
    /\ pc' = "returned"
    /\ gradient' = Gradient(height)
    /\ UNCHANGED <<kural_line1, kural_line2, fonts, blocks, runVars, envVars, wrapVars>>

NextGradient == PaintGradient

SpecGradient == InitGradient /\ [][NextGradient]_vars

-----------------------------------------------------------------------------
(* create_wallpaper_image called directly, on narrow and on wide canvases *)

ComposeRecords ==
    { Record(t, Phrase(<<"a">>, m), Phrase(<<"a">>, n), Phrase(<<"a">>, k), <<"a">>) :
        t \in {<<>>} \cup { Phrase(<<"b">>, i) \o <<NL>> \o Phrase(<<"b">>, j) :
                              i \in 0..MaxWords, j \in 0..MaxWords },
        m \in {0, MaxWords}, n \in {0, MaxWords}, k \in 0..MaxWords }

\* The default width, and widths that leave the subtitle k half glyphs
ComposeWidths ==
    {DefaultWidth}
        \cup {CardMargin * 2 + 200 + k * (SubtitleSize \div 2) : k \in 1..MaxWidthUnits}

\* The two smallest canvases that hold the card
ComposeHeights == {CardMargin * 2, CardMargin * 2 + 1}

InitCompose ==
    /\ pc = "picked"
    /\ kural_data \in ComposeRecords
    /\ fontFiles \in {AllLoad, NoneLoad}
    /\ width \in ComposeWidths
    /\ height \in ComposeHeights
    /\ dataFile = [state |-> "missing"]
    /\ RunBlank /\ ComposeBlank /\ WrapBlank

NextCompose == CreateWallpaperImage

SpecCompose == InitCompose /\ [][NextCompose]_vars

-----------------------------------------------------------------------------
(* Properties of the run *)

Range(s) == {s[i] : i \in 1..Len(s)}
IsPrefix(s, t) == Len(s) <= Len(t) /\ \A i \in 1..Len(s) : s[i] = t[i]
Last(s) == s[Len(s)]

RunOrder == <<"read", "select", "construct", "write", "os_call">>

\* The error the specification calls EmptyCollectionError: what random.choice
\* raises on an empty sequence
EmptyCollectionError == "IndexError"

\* C4: the steps of a run happen in the order read, select, construct, write,
\* OS call, each at most once; the OS call happens only with the output file
\* written and no error; a failed step is the last step of the run, and a
\* failure before the write leaves no file written and no OS call made.
C4_StrictSequence ==
    /\ IsPrefix(steps, RunOrder)
    /\ "os_call" \in Range(steps) => (outFile = "written" /\ err = NoError)
    /\ err # NoError =>
          /\ pc = "failed"
          /\ Last(steps) = err.at
          /\ wallpaper = "unset"
          /\ outFile = "absent"
          /\ err.at \in {"read", "select", "construct"} =>
                ("write" \notin Range(steps) /\ "os_call" \notin Range(steps))

\* C4 witness: a run that performed all five steps
C4_Witness == pc = "done" /\ steps = RunOrder /\ outFile = "written"

\* C5: get_random_kural on an empty list raises the empty-collection error,
\* yields no record, and the run ends there.
C5_EmptyCollectionFails ==
    ("select" \in Range(steps) /\ kurals = <<>>) =>
        /\ err = Error(EmptyCollectionError, "select")
        /\ kural_data = NoRecord
        /\ pc = "failed"
        /\ Last(steps) = "select"
        /\ outFile = "absent"
        /\ wallpaper = "unset"

\* C5 witness: the selection was attempted on an empty list
C5_Witness == "select" \in Range(steps) /\ kurals = <<>> /\ dataFile.state = "json"

-----------------------------------------------------------------------------
(* Properties of draw_wrapped_centered_text *)

\* C1: joining the produced lines with single spaces and splitting the result
\* on whitespace gives back the words of the input text, in order.
C1_RoundTrip ==
    pc = "returned" => Split(Join(drawn.lines, <<SP>>)) = Split(text)

\* C1 witness: a text of three words, with a newline among its separators, that
\* was wrapped onto at least two lines
C1_Witness ==
    /\ pc = "returned"
    /\ Len(Split(text)) >= 3
    /\ Contains(text, NL)
    /\ Len(drawn.lines) >= 2

WidestWord(t, f) ==
    LET ws == Split(t)
    IN  IF ws = <<>> THEN 0
        ELSE CHOOSE m \in {TextWidth(ws[i], f) : i \in 1..Len(ws)} :
                 \A i \in 1..Len(ws) : TextWidth(ws[i], f) <= m

\* C2: with max_width at least the widest word no line is wider than
\* max_width; in general a line wider than max_width is a single word of the
\* text that is itself wider than max_width.
C2_WidthBound ==
    pc = "returned" =>
        /\ max_width >= WidestWord(text, font) =>
              \A i \in 1..Len(drawn.lines) : TextWidth(drawn.lines[i], font) <= max_width
        /\ \A i \in 1..Len(drawn.lines) :
              TextWidth(drawn.lines[i], font) > max_width =>
                  /\ Len(Split(drawn.lines[i])) = 1
                  /\ drawn.lines[i] \in Range(Split(text))

\* The part of C2 that the code keeps: the bound for max_width >= widest word,
\* and single-word overflow for every max_width >= 0.
C2_WidthBoundNonNegative ==
    (pc = "returned" /\ max_width >= 0) => C2_WidthBound

\* C10: no produced line is empty, the returned height counts the lines, and a
\* text without words gives no line and height 0.
C10_NoEmptyLine ==
    pc = "returned" =>
        /\ \A i \in 1..Len(drawn.lines) : Split(drawn.lines[i]) # <<>>
        /\ drawn.total_height = Len(drawn.lines) * LineHeight(font)
        /\ Split(text) = <<>> => (drawn.lines = <<>> /\ drawn.total_height = 0)

\* The part of C10 that the code keeps: only the first line can be empty, and
\* only when the first word is wider than max_width.
C10_OnlyFirstLineEmpty ==
    pc = "returned" =>
        /\ \A i \in 1..Len(drawn.lines) :
              Split(drawn.lines[i]) = <<>> =>
                  (i = 1 /\ TextWidth(Split(text)[1], font) > max_width)
        /\ drawn.total_height = Len(drawn.lines) * LineHeight(font)
        /\ Split(text) = <<>> => (drawn.lines = <<>> /\ drawn.total_height = 0)

-----------------------------------------------------------------------------
(* Properties of the text extraction *)

PrimaryHasLines(d) ==
    /\ Contains(Get(d, "kural_tamil1"), NL)
    /\ SplitOn(Get(d, "kural_tamil1"), NL)[1] # <<>>

PrimaryPair(d) ==
    <<SplitOn(Get(d, "kural_tamil1"), NL)[1], SplitOn(Get(d, "kural_tamil1"), NL)[2]>>

FallbackPair(d) == <<Get(d, "kural_bamini1"), Get(d, "kural_bamini2")>>

\* C3: the two extracted lines are the two pieces of kural_tamil1 when that
\* field has a line separator and a non-empty first piece, and otherwise the
\* pair kural_bamini1, kural_bamini2; never one line from each.
C3_FallbackChain ==
    pc = "returned" =>
        <<kural_line1, kural_line2>> =
            IF PrimaryHasLines(kural_data) THEN PrimaryPair(kural_data)
            ELSE FallbackPair(kural_data)

\* C3 witness: the primary field holds a separator but an empty first line, the
\* fallback fields are not empty, and the fallback pair was extracted
C3_Witness ==
    /\ pc = "returned"
    /\ Contains(Get(kural_data, "kural_tamil1"), NL)
    /\ SplitOn(Get(kural_data, "kural_tamil1"), NL)[2] # <<>>
    /\ Get(kural_data, "kural_bamini1") # <<>>
    /\ Get(kural_data, "kural_bamini2") # <<>>
    /\ <<kural_line1, kural_line2>> = FallbackPair(kural_data)

-----------------------------------------------------------------------------
(* Properties of the font resolution *)

Loadable == {c \in 1..NumCandidates : fontFiles[c] = 0}

FirstLoadable == CHOOSE c \in Loadable : \A o \in Loadable : c <= o

\* C6: the four fonts are those of the first candidate that loads at all four
\* sizes, at 42, 28, 24 and 18; with no such candidate all four are the built-in
\* font; the four never come from different sources and are always bound.
C6_FontsFromOneSource ==
    pc = "returned" =>
        /\ \A r \in 1..4 :
              fonts[r] = IF Loadable # {} THEN Font(FirstLoadable, Sizes[r])
                         ELSE Font(DefaultFont, DefaultSize)
        /\ \A r, q \in 1..4 : fonts[r].source = fonts[q].source
        /\ \A r \in 1..4 : fonts[r] # NoFont

\* C6 witness: the first candidate loaded at two sizes and then failed, a later
\* candidate loaded at all four
C6_Witness ==
    /\ pc = "returned"
    /\ fontFiles[1] = 3
    /\ fontFiles[2] = 1
    /\ fontFiles[3] = 0
    /\ fonts[1] = Font(3, TitleSize)

-----------------------------------------------------------------------------
(* Properties of the gradient *)

Between(v, a, b) == (a <= v /\ v <= b) \/ (b <= v /\ v <= a)

\* C9 as stated: scanline 0 has the top colour, scanline height - 1 has the
\* bottom colour, every channel lies between its top and bottom values.
C9_TopToBottom ==
    pc = "returned" =>
        /\ gradient[1] = TopColor
        /\ gradient[height] = BottomColor
        /\ \A i \in 1..height : \A ch \in 1..3 :
              Between(gradient[i][ch], TopColor[ch], BottomColor[ch])

\* C9 amended: scanline y is the interpolation at y / height truncated to an
\* integer, so scanline 0 has the top colour, the last scanline is taken at
\* (height - 1) / height, and every channel lies between top and bottom.
C9_RowOverHeight ==
    pc = "returned" =>
        /\ Len(gradient) = height
        /\ gradient[1] = TopColor
        /\ \A i \in 1..height : \A ch \in 1..3 :
              LET exact == TopColor[ch] * height + (BottomColor[ch] - TopColor[ch]) * (i - 1)
              IN  /\ gradient[i][ch] * height <= exact
                  /\ exact < (gradient[i][ch] + 1) * height
                  /\ Between(gradient[i][ch], TopColor[ch], BottomColor[ch])

\* C9 witness: on the default canvas the last scanline is not the bottom colour
C9_Witness ==
    /\ pc = "returned"
    /\ height = DefaultHeight
    /\ gradient[height] = <<15, 32, 61>>

-----------------------------------------------------------------------------
(* Properties of the layout *)

Composed == "write" \in Range(steps)

\* C7: the top edge of the secondary block is at or below the bottom edge of
\* the main block, a block's height being its line count times 1.3 times the
\* font size.
C7_SecondaryBelowMain ==
    Composed =>
        /\ blocks.title.total_height = Len(blocks.title.lines) * LineHeight(fonts[1])
        /\ blocks.subtitle.total_height = Len(blocks.subtitle.lines) * LineHeight(fonts[2])
        /\ blocks.subtitle.y_center - blocks.subtitle.total_height \div 2
              >= blocks.title.y_center + blocks.title.total_height \div 2

\* What the code keeps of C7: the blocks do not overlap while the secondary
\* block is at most 180 pixels high (90 pixels separate the main block's bottom
\* edge from the secondary block's centre).
C7_BelowWhenShort ==
    (Composed /\ blocks.subtitle.total_height <= 180 * Sub) =>
        blocks.subtitle.y_center - blocks.subtitle.total_height \div 2
            >= blocks.title.y_center + blocks.title.total_height \div 2

Words(ls) == Split(Join(ls, <<SP>>))

\* C8: the rendered secondary block keeps the boundary between the two
\* extracted lines: some prefix of its lines holds exactly the words of line 1
\* and the rest exactly the words of line 2.
C8_LineBreakKept ==
    Composed =>
        \E k \in 0..Len(blocks.subtitle.lines) :
            /\ Words(SubSeq(blocks.subtitle.lines, 1, k)) = Split(kural_line1)
            /\ Words(SubSeq(blocks.subtitle.lines, k + 1, Len(blocks.subtitle.lines)))
                  = Split(kural_line2)

=============================================================================
